---- MODULE Spec2Model ----
(***************************************************************************)
(* Answer checker: the evaluate endpoint (netlify/functions/evaluate.js    *)
(* and its evaluate.mjs variant) and the browser-side content assembler    *)
(* (public/app.js).                                                        *)
(*                                                                         *)
(* JavaScript numbers are modelled as exact rationals [n, d] (d > 0, in    *)
(* lowest terms) next to a NaN value; strings that are converted to        *)
(* numbers are sequences of characters, so that Number(...) is computed.   *)
(* Strings whose length matters are sequences of segments [text, off, len] *)
(* (len characters of `text` from offset off), so that slice and length    *)
(* are computed on the real sizes.                                         *)
(***************************************************************************)
EXTENDS Integers, Sequences, FiniteSets, TLC

VARIABLES
    \* ---- evaluate endpoint ----
    variant,      \* which handler file serves the request
    apiKey,       \* process.env.OPENAI_API_KEY is set
    pc,           \* "idle" | "received" | "awaitModel" | "done"
    req,          \* the request being handled
    userContent,  \* the user message handed to the scoring model
    modelCalls,   \* client.chat.completions.create invocations for this request
    completion,   \* how the model call ended: its content, or that it threw
    res,          \* the response
    \* ---- content assembler ----
    files,        \* let files = []
    offered,      \* the FileList of the last handleFiles call
    alerts,       \* the alert(...) messages of the last handler that ran
    ui,           \* "ready" | "fetching" (busy shown, evaluate button disabled)
    rejected,     \* names of the files handleFiles has turned away so far
    lastHandler,  \* the handler that ran last
    payload,      \* the body the last handler handed to fetch, if it was a click that did
    shown         \* what the result panel shows

serverVars == <<variant, apiKey, pc, req, userContent, modelCalls, completion, res>>
clientVars == <<files, offered, alerts, ui, rejected, lastHandler, payload, shown>>
vars == <<variant, apiKey, pc, req, userContent, modelCalls, completion, res,
          files, offered, alerts, ui, rejected, lastHandler, payload, shown>>

(***************************************************************************)
(* JavaScript values                                                       *)
(***************************************************************************)
Undefined == [t |-> "undefined"]
Null == [t |-> "null"]
NaN == [t |-> "nan"]
Bool(b) == [t |-> "bool", b |-> b]
Str(chars) == [t |-> "str", chars |-> chars]
Arr(elems) == [t |-> "arr", elems |-> elems]
Obj(f) == [t |-> "obj", f |-> f]

RECURSIVE Gcd(_, _)
Gcd(a, b) == IF b = 0 THEN a ELSE Gcd(b, a % b)

Abs(a) == IF a < 0 THEN -a ELSE a

\* the number n/d, in lowest terms with a positive denominator
Num(n, d) ==
    LET g == Gcd(Abs(n), Abs(d))
        s == IF d < 0 THEN -1 ELSE 1
    IN  [t |-> "num", n |-> s * (n \div g), d |-> s * (d \div g)]

Whole(n) == Num(n, 1)

IsNum(x) == x.t = "num"

Less(a, b) == a.n * b.d < b.n * a.d

IsInteger(x) == IsNum(x) /\ x.d = 1

\* a * b and a / b of JavaScript, NaN propagating
Times(a, b) == IF IsNum(a) /\ IsNum(b) THEN Num(a.n * b.n, a.d * b.d) ELSE NaN

DividedBy(a, b) ==
    IF IsNum(a) /\ IsNum(b) /\ b.n # 0 THEN Num(a.n * b.d, a.d * b.n) ELSE NaN

\* Math.round: the nearest integer, a tie going up
MathFloor(x) == IF IsNum(x) THEN Whole(x.n \div x.d) ELSE NaN

MathRound(x) == IF IsNum(x) THEN Whole((2 * x.n + x.d) \div (2 * x.d)) ELSE NaN

MathMin(a, b) == IF Less(b, a) THEN b ELSE a

MathMax(a, b) == IF Less(a, b) THEN b ELSE a

(***************************************************************************)
(* Number(x)                                                               *)
(***************************************************************************)
Digits == <<"0", "1", "2", "3", "4", "5", "6", "7", "8", "9">>

IsDigit(c) == \E i \in 1..Len(Digits) : Digits[i] = c

DigitValue(c) == (CHOOSE i \in 1..Len(Digits) : Digits[i] = c) - 1

IsSpace(c) == c \in {" ", "\n", "\t"}

RECURSIVE TrimStart(_)
TrimStart(s) == IF s # <<>> /\ IsSpace(Head(s)) THEN TrimStart(Tail(s)) ELSE s

RECURSIVE TrimEnd(_)
TrimEnd(s) ==
    IF s # <<>> /\ IsSpace(s[Len(s)]) THEN TrimEnd(SubSeq(s, 1, Len(s) - 1)) ELSE s

Trim(s) == TrimEnd(TrimStart(s))

AllDigits(s) == \A i \in 1..Len(s) : IsDigit(s[i])

RECURSIVE DigitsValue(_)
DigitsValue(s) ==
    IF s = <<>> THEN 0
    ELSE 10 * DigitsValue(SubSeq(s, 1, Len(s) - 1)) + DigitValue(s[Len(s)])

RECURSIVE Pow10(_)
Pow10(k) == IF k = 0 THEN 1 ELSE 10 * Pow10(k - 1)

\* an unsigned decimal literal: digits, optionally a point and more digits
UnsignedToNumber(s) ==
    LET dots == {i \in 1..Len(s) : s[i] = "."}
    IN  IF dots = {} THEN
            IF s # <<>> /\ AllDigits(s) THEN Whole(DigitsValue(s)) ELSE NaN
        ELSE
            LET p == CHOOSE i \in dots : \A j \in dots : i <= j
                whole == SubSeq(s, 1, p - 1)
                frac == SubSeq(s, p + 1, Len(s))
            IN  IF AllDigits(whole) /\ AllDigits(frac) /\ Len(whole) + Len(frac) > 0
                THEN Num(DigitsValue(whole) * Pow10(Len(frac)) + DigitsValue(frac),
                         Pow10(Len(frac)))
                ELSE NaN

\* Number(string): blank is 0, a signed decimal literal its value, all else NaN
StringToNumber(chars) ==
    LET s == Trim(chars)
    IN  IF s = <<>> THEN Whole(0)
        ELSE IF Head(s) = "-" THEN Times(Whole(-1), UnsignedToNumber(Tail(s)))
        ELSE IF Head(s) = "+" THEN UnsignedToNumber(Tail(s))
        ELSE UnsignedToNumber(s)

\* String(x) of an array element, as Array.prototype.join renders it
ElementToChars(x) ==
    CASE x.t = "str" -> x.chars
      [] x.t \in {"null", "undefined"} -> <<>>
      [] x.t = "bool" -> IF x.b THEN <<"t", "r", "u", "e">> ELSE <<"f", "a", "l", "s", "e">>
      [] OTHER -> <<"?">>

ToNumber(x) ==
    CASE x.t = "num" -> x
      [] x.t = "nan" -> NaN
      [] x.t = "undefined" -> NaN
      [] x.t = "null" -> Whole(0)
      [] x.t = "bool" -> IF x.b THEN Whole(1) ELSE Whole(0)
      [] x.t = "str" -> StringToNumber(x.chars)
      [] x.t = "arr" ->
            IF Len(x.elems) = 0 THEN Whole(0)
            ELSE IF Len(x.elems) > 1 THEN NaN
            ELSE IF x.elems[1].t = "num" THEN x.elems[1]
            ELSE StringToNumber(ElementToChars(x.elems[1]))
      [] OTHER -> NaN

Truthy(x) ==
    CASE x.t \in {"undefined", "null", "nan"} -> FALSE
      [] x.t = "bool" -> x.b
      [] x.t = "num" -> x.n # 0
      [] x.t = "str" -> x.chars # <<>>
      [] OTHER -> TRUE

Or(x, default) == IF Truthy(x) THEN x ELSE default

\* JSON.stringify of a number: NaN becomes null
JsonNumber(x) == IF x.t = "nan" THEN Null ELSE x

(***************************************************************************)
(* clampNumber (evaluate.js) and clamp (evaluate.mjs)                      *)
(***************************************************************************)
clampNumber(n, min, max) ==
    LET v == ToNumber(n)
    IN  IF v.t = "nan" THEN min ELSE MathMax(min, MathMin(max, v))

clamp(n, min, max) ==
    LET v == ToNumber(n)
    IN  IF v.t = "nan" THEN min ELSE MathMax(min, MathMin(max, v))

(***************************************************************************)
(* Strings by segments                                                     *)
(***************************************************************************)
Seg(text, len) == [text |-> text, off |-> 0, len |-> len]

\* a literal: every character of s
Lit(s) == IF s = "" THEN <<>> ELSE <<Seg(s, Len(s))>>

\* an opaque run of len characters named id
Run(id, len) == IF len = 0 THEN <<>> ELSE <<Seg(id, len)>>

RECURSIVE StrLen(_)
StrLen(s) == IF s = <<>> THEN 0 ELSE Head(s).len + StrLen(Tail(s))

\* s.slice(0, n)
RECURSIVE Slice(_, _)
Slice(s, n) ==
    IF s = <<>> \/ n <= 0 THEN <<>>
    ELSE IF Head(s).len <= n THEN <<Head(s)>> \o Slice(Tail(s), n - Head(s).len)
    ELSE <<[Head(s) EXCEPT !.len = n]>>

\* parts.join(sep)
RECURSIVE Join(_, _)
Join(parts, sep) ==
    IF parts = <<>> THEN <<>>
    ELSE IF Len(parts) = 1 THEN parts[1]
    ELSE parts[1] \o sep \o Join(Tail(parts), sep)

\* an optional string field: absent, or the string s
Absent == [has |-> FALSE, s |-> ""]
Some(s) == [has |-> TRUE, s |-> s]
OrString(o, default) == IF o.has /\ o.s # "" THEN o.s ELSE default

(***************************************************************************)
(* The evaluate endpoint                                                   *)
(***************************************************************************)
TextCap == 150000
ImageCap == 12

EvaluateJs == "netlify/functions/evaluate.js"
EvaluateMjs == "netlify/functions/evaluate.mjs"

\* `\n\n[Source: ${t.source || "unknown"}]\n${t.text}`
SourceBlock(t) ==
    Lit("\n\n[Source: " \o OrString(t.source, "unknown") \o "]\n") \o t.text

bigText(texts) ==
    Join([i \in 1..Len(texts) |-> SourceBlock(texts[i])], Lit("\n"))

trimmedAtOrAboveCap(big) ==
    IF StrLen(big) >= TextCap THEN Slice(big, TextCap) \o Lit("\n...[trimmed]") ELSE big

trimmed(big) ==
    IF StrLen(big) > TextCap THEN Slice(big, TextCap) \o Lit("\n...[trimmed]") ELSE big

\* images.slice(0, 12) as image_url parts
ImageParts(images) ==
    [i \in 1..(IF Len(images) < ImageCap THEN Len(images) ELSE ImageCap) |->
        [type |-> "image_url", part |-> "image", url |-> images[i].dataUrl]]

OcrNote == "If images contain handwriting or printed text, perform OCR before evaluation."

\* the user message: the question and context, then the text block, then the images
BuildUserContent(b) ==
    <<[type |-> "text", part |-> "head", question |-> b.question,
       examType |-> OrString(b.examType, "GS"),
       timeLimit |-> IF Truthy(b.timeLimit) THEN b.timeLimit ELSE Undefined,
       maxMarks |-> b.maxMarks]>>
    \o (IF Len(b.texts) # 0
        THEN <<[type |-> "text", part |-> "answer", text |-> trimmed(bigText(b.texts))]>>
        ELSE <<>>)
    \o (IF Len(b.images) # 0
        THEN ImageParts(b.images) \o <<[type |-> "text", part |-> "ocr", note |-> OcrNote]>>
        ELSE <<>>)

\* the destructured fields of a body that holds none
NoFields ==
    [question |-> Undefined, maxMarks |-> Undefined, examType |-> Absent,
     timeLimit |-> Undefined, texts |-> <<>>, images |-> <<>>]

Fields(body) == IF body.kind = "object" THEN body.fields ELSE NoFields

MissingMaxMarksOnly(question, maxMarks) == ~Truthy(maxMarks)

\* !question || !maxMarks
MissingRequired(question, maxMarks) == ~Truthy(question) \/ ~Truthy(maxMarks)

Return(status, message) ==
    [status |-> status, body |-> [message |-> message], call |-> FALSE, content |-> <<>>]
Call(content) ==
    [status |-> 0, body |-> [message |-> ""], call |-> TRUE, content |-> content]

defaultHandlerStartUnvalidated(r) ==
    IF r.method # "POST" THEN Return(405, "Method not allowed")
    ELSE Call(BuildUserContent(Fields(r.body)))

\* evaluate.js up to the model call: an early return, or the call with its content
defaultHandlerStart(r) ==
    IF r.method # "POST" THEN Return(405, "Method not allowed")
    ELSE IF r.body.kind = "invalid" THEN Return(500, "Unexpected token")
    ELSE LET b == Fields(r.body)
         IN  IF MissingRequired(b.question, b.maxMarks) THEN Return(400, "Missing question or maxMarks")
             ELSE Call(BuildUserContent(b))

\* evaluate.mjs up to the model call
handlerStart(r, key) ==
    IF r.method # "POST" THEN Return(405, "Method not allowed")
    ELSE IF ~key THEN Return(500, "OPENAI_API_KEY is not set")
    ELSE IF r.body.kind = "invalid" THEN Return(500, "Unexpected token")
    ELSE IF r.body.kind = "null" THEN Return(500, "Cannot destructure property of null")
    ELSE LET b == Fields(r.body)
         IN  IF MissingRequired(b.question, b.maxMarks) THEN Return(400, "Missing question or maxMarks")
             ELSE Call(BuildUserContent(b))

\* property k of a parsed value; a primitive or an array has none of these keys
Get(o, k) == IF o.t = "obj" /\ k \in DOMAIN o.f THEN o.f[k] ELSE Undefined

EmptyObject == Obj(<<>>)
EmptyList == Arr(<<>>)

\* completion.choices?.[0]?.message?.content || "{}", then JSON.parse or {}
ParseContent(content) ==
    CASE content.kind \in {"absent", "empty"} -> EmptyObject
      [] content.kind = "garbage" -> EmptyObject
      [] OTHER -> content.value

ScaleFloor(rawOutOf100, maxMarks) ==
    MathFloor(Times(DividedBy(rawOutOf100, Whole(100)), maxMarks))

\* Math.round((rawOutOf100 / 100) * maxMarks)
Scale(rawOutOf100, maxMarks) ==
    MathRound(Times(DividedBy(rawOutOf100, Whole(100)), maxMarks))

\* the 200 response built from the parsed output and the clamped raw score
Respond(parsed, rawOutOf100, maxMarks) ==
    [status |-> 200,
     body |-> [rawOutOf100 |-> JsonNumber(rawOutOf100),
               rubric |-> Or(Get(parsed, "rubric"), EmptyObject),
               strengths |-> Or(Get(parsed, "strengths"), EmptyList),
               weaknesses |-> Or(Get(parsed, "weaknesses"), EmptyList),
               suggestions |-> Or(Get(parsed, "suggestions"), EmptyList),
               inline_comments |-> Or(Get(parsed, "inline_comments"), EmptyList),
               totalScaled |-> JsonNumber(Scale(rawOutOf100, ToNumber(maxMarks))),
               maxMarks |-> JsonNumber(ToNumber(maxMarks))]]

ServerError(message) == [status |-> 500, body |-> [message |-> message]]

\* evaluate.js after the model call resolved
defaultHandlerResume(content, maxMarks) ==
    LET parsed == ParseContent(content)
    IN  IF parsed.t \in {"null", "undefined"}
        THEN ServerError("Cannot read properties of null")
        ELSE Respond(parsed, clampNumber(Get(parsed, "rawOutOf100"), Whole(0), Whole(100)),
                     maxMarks)

\* evaluate.mjs after the model call resolved
handlerResume(content, maxMarks) ==
    LET parsed == ParseContent(content)
    IN  IF parsed.t \in {"null", "undefined"}
        THEN ServerError("Cannot read properties of null")
        ELSE Respond(parsed, clamp(Get(parsed, "rawOutOf100"), Whole(0), Whole(100)),
                     maxMarks)

(***************************************************************************)
(* Requests and model outputs the endpoint is driven with                  *)
(***************************************************************************)
MaxTexts == 2

Questions == {Undefined, Str(<<>>), Str(<<"Q">>)}

MaxMarksValues ==
    {Undefined, Null, Whole(0), Str(<<>>),
     Whole(15), Whole(7), Num(5, 2), Whole(-5),
     Str(<<"1", "5">>), Str(<<"a", "b", "c">>)}

Contexts ==
    {[examType |-> Absent, timeLimit |-> Undefined],
     [examType |-> Some("Essay"), timeLimit |-> Whole(30)]}

\* with the 19-character label of a.docx: 150000 and 150001 characters; and a short one
TextCatalog ==
    {[source |-> Some("a.docx"), text |-> Run("answer A", TextCap - 19)],
     [source |-> Some("a.docx"), text |-> Run("answer B", TextCap - 18)],
     [source |-> Absent, text |-> Run("answer C", 10)]}

SeqsUpTo(S, n) == UNION {[1..k -> S] : k \in 0..n}

TextLists == SeqsUpTo(TextCatalog, MaxTexts)

Image(i) == [mime |-> "image/jpeg", dataUrl |-> [of |-> "scan.pdf", page |-> i]]

ImageLists == {[i \in 1..k |-> Image(i)] : k \in {0, 1, ImageCap + 1}}

Bodies ==
    {[kind |-> k, fields |-> NoFields] : k \in {"invalid", "null", "object"}}
    \cup
    {[kind |-> "object",
      fields |-> [question |-> q, maxMarks |-> m, examType |-> c.examType,
                  timeLimit |-> c.timeLimit, texts |-> t, images |-> i]] :
        q \in Questions, m \in MaxMarksValues, c \in Contexts,
        t \in TextLists, i \in ImageLists}

Requests == {[method |-> m, body |-> b] : m \in {"POST", "GET"}, b \in Bodies}

NoRequest == [method |-> "", body |-> [kind |-> "null", fields |-> NoFields]]

\* values the model may give for rawOutOf100, Undefined standing for the key's absence
RawValues ==
    {Undefined, Null, Bool(TRUE), Bool(FALSE),
     Whole(0), Whole(70), Num(141, 2), Whole(100), Whole(150), Whole(-5),
     Str(<<"7", "0">>), Str(<<" ">>), Str(<<"a", "b", "c">>),
     Arr(<<>>), Arr(<<Whole(5)>>), Arr(<<Whole(5), Whole(6)>>), EmptyObject}

FeedbackKeys == {"rubric", "strengths", "weaknesses", "suggestions", "inline_comments"}

SampleValue(k) ==
    IF k = "rubric" THEN Obj([r \in {"value_add"} |-> Whole(5)])
    ELSE Arr(<<Str(<<"x">>)>>)

ParsedObject(raw, present) ==
    Obj([k \in present \cup (IF raw = Undefined THEN {} ELSE {"rawOutOf100"}) |->
            IF k = "rawOutOf100" THEN raw ELSE SampleValue(k)])

Json(value) == [kind |-> "json", value |-> value]

\* message.content of the completion
Contents ==
    {[kind |-> k, value |-> Undefined] : k \in {"absent", "empty", "garbage"}}
    \cup {Json(v) : v \in {Null, Bool(TRUE), Whole(70), Str(<<"7", "0">>), Arr(<<Whole(70)>>)}}
    \cup {Json(ParsedObject(raw, present)) : raw \in RawValues, present \in {{}, FeedbackKeys}}
    \cup {Json(ParsedObject(raw, present)) :
            raw \in {Undefined, Whole(70)}, present \in SUBSET FeedbackKeys}

NoCompletion == [kind |-> "none", content |-> [kind |-> "absent", value |-> Undefined]]
NoResponse == [status |-> 0, body |-> [message |-> ""]]

(***************************************************************************)
(* The content assembler's state before any file is chosen                 *)
(***************************************************************************)
NoPayload == [sent |-> FALSE, question |-> <<>>, maxMarks |-> Whole(0), examType |-> "",
              timeLimit |-> Null, texts |-> <<>>, images |-> <<>>]

NothingShown == [hidden |-> TRUE, data |-> NoResponse.body]

ClientInit ==
    /\ files = <<>>
    /\ offered = <<>>
    /\ alerts = <<>>
    /\ ui = "ready"
    /\ rejected = {}
    /\ lastHandler = "none"
    /\ payload = NoPayload
    /\ shown = NothingShown

(***************************************************************************)
(* The endpoint's steps                                                    *)
(***************************************************************************)
ServerInit ==
    /\ variant \in {EvaluateJs, EvaluateMjs}
    /\ apiKey \in BOOLEAN
    \* evaluate.js builds its client when the module loads, which needs the key
    /\ variant = EvaluateJs => apiKey
    /\ pc = "idle"
    /\ req = NoRequest
    /\ userContent = <<>>
    /\ modelCalls = 0
    /\ completion = NoCompletion
    /\ res = NoResponse

\* a request arrives
Receive(r) ==
    /\ pc = "idle"
    /\ pc' = "received"
    /\ req' = r
    /\ userContent' = <<>>
    /\ modelCalls' = 0
    /\ completion' = NoCompletion
    /\ res' = NoResponse
    /\ UNCHANGED <<variant, apiKey>>
    /\ UNCHANGED clientVars

\* the handler runs to an early return or to the await of the model call
Start ==
    /\ pc = "received"
    /\ LET s == IF variant = EvaluateJs THEN defaultHandlerStart(req)
                ELSE handlerStart(req, apiKey)
       IN  IF s.call
           THEN /\ pc' = "awaitModel"
                /\ userContent' = s.content
                /\ modelCalls' = modelCalls + 1
                /\ UNCHANGED res
           ELSE /\ pc' = "done"
                /\ res' = [status |-> s.status, body |-> s.body]
                /\ UNCHANGED <<userContent, modelCalls>>
    /\ UNCHANGED <<variant, apiKey, req, completion>>
    /\ UNCHANGED clientVars

\* the model call resolves with a completion
ModelResolves(content) ==
    /\ pc = "awaitModel"
    /\ pc' = "done"
    /\ completion' = [kind |-> "resolved", content |-> content]
    /\ res' = IF variant = EvaluateJs
              THEN defaultHandlerResume(content, Fields(req.body).maxMarks)
              ELSE handlerResume(content, Fields(req.body).maxMarks)
    /\ UNCHANGED <<variant, apiKey, req, userContent, modelCalls>>
    /\ UNCHANGED clientVars

\* the model call throws: caught, logged, answered 500
ModelRejects ==
    /\ pc = "awaitModel"
    /\ pc' = "done"
    /\ completion' = [kind |-> "rejected", content |-> [kind |-> "absent", value |-> Undefined]]
    /\ res' = ServerError("upstream error")
    /\ UNCHANGED <<variant, apiKey, req, userContent, modelCalls>>
    /\ UNCHANGED clientVars

\* the response is out and the invocation's locals are gone; the next request may come
Finish ==
    /\ pc = "done"
    /\ pc' = "idle"
    /\ req' = NoRequest
    /\ userContent' = <<>>
    /\ modelCalls' = 0
    /\ completion' = NoCompletion
    /\ res' = NoResponse
    /\ UNCHANGED <<variant, apiKey>>
    /\ UNCHANGED clientVars

ServerNext ==
    \/ pc = "idle" /\ \E r \in Requests : Receive(r)
    \/ Start
    \/ pc = "awaitModel" /\ \E c \in Contents : ModelResolves(c)
    \/ ModelRejects
    \/ Finish

InitServer == ServerInit /\ ClientInit

SpecServer == InitServer /\ [][ServerNext]_vars

(***************************************************************************)
(* The content assembler (public/app.js)                                   *)
(*                                                                         *)
(* A file is [name, type, pages, slides, text, broken]: its name as the    *)
(* dot-separated parts, its MIME type as [major, minor], and what the      *)
(* libraries find in it: the text length of each PDF page, the slide parts *)
(* of a PPTX archive, the raw text length of a DOCX, and whether reading   *)
(* it fails.                                                               *)
(***************************************************************************)
FileCap == 10
ListCap == 10
TextThreshold == 500
RenderThreshold == 500
PdfTextPages == 20
PdfRenderPages == 8
FallbackImages == 8
SlideCap == 40

Min(a, b) == IF a < b THEN a ELSE b

Type(major, minor) == [major |-> major, minor |-> minor]
NoType == Type("", "")

\* name.toLowerCase(), part by part
ToLowerCase(part) ==
    CASE part = "PDF" -> "pdf"
      [] part = "DOCX" -> "docx"
      [] part = "PPTX" -> "pptx"
      [] OTHER -> part

\* name.toLowerCase().endsWith("." + ext)
EndsWith(name, ext) == Len(name) >= 2 /\ ToLowerCase(name[Len(name)]) = ext

\* name.toLowerCase().split(".").pop()
Ext(name) == ToLowerCase(name[Len(name)])

OkTypes ==
    {Type("application", "pdf"),
     Type("application", "vnd.openxmlformats-officedocument.wordprocessingml.document"),
     Type("application", "vnd.openxmlformats-officedocument.presentationml.presentation"),
     Type("image", "png"),
     Type("image", "jpeg")}

isAllowedAnything(f) == TRUE

isAllowed(f) ==
    ~(/\ f.type \notin OkTypes
      /\ ~EndsWith(f.name, "pptx")
      /\ ~EndsWith(f.name, "docx")
      /\ ~EndsWith(f.name, "pdf"))

Unsupported(f) == [kind |-> "Unsupported", name |-> f.name]
ErrorAlert(message) == [kind |-> message, name |-> <<>>]

\* the files of a FileList that are pushed, and the alerts for the others
RECURSIVE Accepted(_)
Accepted(list) ==
    IF list = <<>> THEN <<>>
    ELSE (IF isAllowed(Head(list)) THEN <<Head(list)>> ELSE <<>>) \o Accepted(Tail(list))

RECURSIVE Warnings(_)
Warnings(list) ==
    IF list = <<>> THEN <<>>
    ELSE (IF isAllowed(Head(list)) THEN <<>> ELSE <<Unsupported(Head(list))>>)
         \o Warnings(Tail(list))

FirstFilesUncapped(list, cap) == list

\* files.slice(0, 10): what renderFileList shows and what a click processes
FirstFiles(list, cap) == SubSeq(list, 1, Min(Len(list), cap))

renderFileList(list) == [i \in 1..Min(Len(list), ListCap) |-> list[i].name]

DecimalString(i) ==
    IF i < 10 THEN Digits[i + 1] ELSE Digits[(i \div 10) + 1] \o Digits[(i % 10) + 1]

\* fullText of extractFromPDF over pages 1..last
RECURSIVE PdfText(_, _)
PdfText(f, last) ==
    IF last = 0 THEN <<>>
    ELSE PdfText(f, last - 1)
         \o Lit("\n\n[Page " \o DecimalString(last) \o "] ")
         \o Run(<<f.name, "page", last>>, f.pages[last])

\* text.trim().length: the two leading line breaks go, and the blank after the last
\* marker when the last page holds no text
TrimmedLength(text, lastLen) ==
    IF text = <<>> THEN 0 ELSE StrLen(text) - 2 - (IF lastLen = 0 THEN 1 ELSE 0)

DataUrl(f, page) == [of |-> f.name, page |-> page]

extractFromPDF(f) ==
    LET last == Min(Len(f.pages), PdfTextPages)
        fullText == PdfText(f, last)
        short == fullText = <<>>
                 \/ TrimmedLength(fullText, IF last = 0 THEN 0 ELSE f.pages[last])
                       < RenderThreshold
    IN  [text |-> fullText,
         trimmedLength |-> TrimmedLength(fullText, IF last = 0 THEN 0 ELSE f.pages[last]),
         pagesAsImages |->
            IF short THEN [i \in 1..Min(Len(f.pages), PdfRenderPages) |-> DataUrl(f, i)]
            ELSE <<>>]

\* res.value || ""
extractFromDOCX(f) == Run(<<f.name, "raw">>, f.text)

\* slideFiles.sort by the number in the part's name
RECURSIVE InsertSlide(_, _)
InsertSlide(sorted, s) ==
    IF sorted = <<>> THEN <<s>>
    ELSE IF s.no < Head(sorted).no THEN <<s>> \o sorted
    ELSE <<Head(sorted)>> \o InsertSlide(Tail(sorted), s)

RECURSIVE SortSlides(_)
SortSlides(slides) ==
    IF slides = <<>> THEN <<>>
    ELSE InsertSlide(SortSlides(SubSeq(slides, 1, Len(slides) - 1)), slides[Len(slides)])

RECURSIVE SlidesText(_, _)
SlidesText(f, slides) ==
    IF slides = <<>> THEN <<>>
    ELSE Lit("\n\n[Slide " \o DecimalString(Head(slides).no) \o "] ")
         \o Run(<<f.name, "slide", Head(slides).no>>, Head(slides).len)
         \o SlidesText(f, Tail(slides))

extractFromPPTX(f) == SlidesText(f, FirstFiles(SortSlides(f.slides), SlideCap))

\* what one file adds to texts and images, or that its extraction threw
Nothing == [threw |-> FALSE, texts |-> <<>>, images |-> <<>>]
Threw == [threw |-> TRUE, texts |-> <<>>, images |-> <<>>]
Texts(t) == [threw |-> FALSE, texts |-> t, images |-> <<>>]
Images(i) == [threw |-> FALSE, texts |-> <<>>, images |-> i]

PdfContribution(f) ==
    LET r == extractFromPDF(f)
    IN  IF r.text # <<>> /\ r.trimmedLength > TextThreshold
        THEN Texts(<<[source |-> f.name, text |-> r.text]>>)
        ELSE Images([i \in 1..Min(Len(r.pagesAsImages), FallbackImages) |->
                        [mime |-> Type("image", "jpeg"), dataUrl |-> r.pagesAsImages[i]]])

Contribution(f) ==
    IF f.type.major = "image" THEN
        IF f.broken THEN Threw
        ELSE Images(<<[mime |-> f.type, dataUrl |-> DataUrl(f, 0)]>>)
    ELSE IF Ext(f.name) = "pdf" THEN
        IF f.broken THEN Threw ELSE PdfContribution(f)
    ELSE IF Ext(f.name) = "docx" THEN
        IF f.broken THEN Threw
        ELSE IF f.text > 0
             THEN Texts(<<[source |-> f.name, text |-> extractFromDOCX(f)]>>)
             ELSE Nothing
    ELSE IF Ext(f.name) = "pptx" THEN
        IF f.broken THEN Threw
        ELSE IF extractFromPPTX(f) # <<>>
             THEN Texts(<<[source |-> f.name, text |-> extractFromPPTX(f)]>>)
             ELSE Nothing
    ELSE Nothing

\* the extraction loop of the click handler: the first throw leaves the loop
RECURSIVE Assemble(_)
Assemble(list) ==
    IF list = <<>> THEN Nothing
    ELSE LET before == Assemble(SubSeq(list, 1, Len(list) - 1))
             c == Contribution(list[Len(list)])
         IN  IF before.threw \/ c.threw THEN Threw
             ELSE [threw |-> FALSE,
                   texts |-> before.texts \o c.texts,
                   images |-> before.images \o c.images]

(***************************************************************************)
(* Files, form values and fetch outcomes the assembler is driven with      *)
(***************************************************************************)
MaxFiles == 2

File(name, type, pages, slides, text, broken) ==
    [name |-> name, type |-> type, pages |-> pages, slides |-> slides,
     text |-> text, broken |-> broken]

DocxType == Type("application", "vnd.openxmlformats-officedocument.wordprocessingml.document")

\* a one-page PDF with p characters of page text extracts to p + 9 characters
FileCatalog ==
    {File(<<"photo", "png">>, Type("image", "png"), <<>>, <<>>, 0, FALSE),
     File(<<"anim", "gif">>, Type("image", "gif"), <<>>, <<>>, 0, FALSE),
     File(<<"short", "pdf">>, Type("application", "pdf"), <<490>>, <<>>, 0, FALSE),
     File(<<"edge", "pdf">>, Type("application", "pdf"), <<491>>, <<>>, 0, FALSE),
     File(<<"essay", "PDF">>, NoType, <<300, 192>>, <<>>, 0, FALSE),
     File(<<"broken", "pdf">>, Type("application", "pdf"), <<600>>, <<>>, 0, TRUE),
     File(<<"essay", "docx">>, DocxType, <<>>, <<>>, 1200, FALSE),
     File(<<"talk", "pptx">>, NoType, <<>>,
          <<[no |-> 2, len |-> 30], [no |-> 10, len |-> 5], [no |-> 1, len |-> 20]>>,
          0, FALSE)}

\* the FileLists handed to handleFiles: one file, or two
Batches == {<<f>> : f \in FileCatalog} \cup {<<f, g>> : f, g \in FileCatalog}

QuestionInputs == {<<>>, <<" ">>, <<"Q">>}
MarksInputs == {<<>>, <<"0">>, <<"-", "5">>, <<"a">>, <<"1", "5">>}
TimeInputs == {<<>>, <<"3", "0">>}

SampleResult ==
    [rawOutOf100 |-> Whole(70), rubric |-> EmptyObject, strengths |-> EmptyList,
     weaknesses |-> EmptyList, suggestions |-> EmptyList, inline_comments |-> EmptyList,
     totalScaled |-> Whole(11), maxMarks |-> Whole(15)]

\* how the fetch ends: a 200 with a result, another status with a message, or a throw
FetchOutcomes ==
    {[ok |-> TRUE, threw |-> FALSE, message |-> ""],
     [ok |-> FALSE, threw |-> FALSE, message |-> "Missing question or maxMarks"],
     [ok |-> FALSE, threw |-> FALSE, message |-> ""],
     [ok |-> FALSE, threw |-> TRUE, message |-> "Failed to fetch"]}

(***************************************************************************)
(* The assembler's handlers                                                *)
(***************************************************************************)
\* drop or file-input change: each allowed file is pushed, each other one alerted
handleFiles(fileListObj) ==
    /\ files' = files \o Accepted(fileListObj)
    /\ alerts' = Warnings(fileListObj)
    /\ offered' = fileListObj
    /\ rejected' = rejected \cup {w.name : w \in {Warnings(fileListObj)[i] :
                                                    i \in 1..Len(Warnings(fileListObj))}}
    /\ lastHandler' = "handleFiles"
    /\ payload' = NoPayload
    /\ UNCHANGED <<ui, shown>>
    /\ UNCHANGED serverVars

\* the remove button of a listed file: files.splice(i, 1)
Remove(i) ==
    /\ i \in 1..Len(renderFileList(files))
    /\ files' = SubSeq(files, 1, i - 1) \o SubSeq(files, i + 1, Len(files))
    /\ alerts' = <<>>
    /\ offered' = <<>>
    /\ lastHandler' = "remove"
    /\ payload' = NoPayload
    /\ UNCHANGED <<ui, rejected, shown>>
    /\ UNCHANGED serverVars

\* the evaluate button: validation, the extraction loop, then the fetch
Click(questionValue, marksValue, timeValue) ==
    /\ ui = "ready"
    /\ lastHandler' = "click"
    /\ offered' = <<>>
    /\ LET question == Trim(questionValue)
           maxMarks == IF marksValue = <<>> THEN Whole(0) ELSE StringToNumber(marksValue)
           timeLimit == IF timeValue = <<>> THEN Null ELSE StringToNumber(timeValue)
           extracted == Assemble(FirstFiles(files, FileCap))
       IN  IF question = <<>> THEN
                /\ alerts' = <<ErrorAlert("Please paste the exact question.")>>
                /\ UNCHANGED <<ui, shown>>
                /\ payload' = NoPayload
           ELSE IF ~Truthy(maxMarks) \/ ~Less(Whole(0), maxMarks) THEN
                /\ alerts' = <<ErrorAlert("Enter valid Max Marks.")>>
                /\ UNCHANGED <<ui, shown>>
                /\ payload' = NoPayload
           ELSE IF extracted.threw THEN
                /\ alerts' = <<ErrorAlert("Error: extraction failed")>>
                /\ ui' = "ready"
                /\ shown' = NothingShown
                /\ payload' = NoPayload
           ELSE /\ alerts' = <<>>
                /\ ui' = "fetching"
                /\ shown' = NothingShown
                /\ payload' = [sent |-> TRUE, question |-> question, maxMarks |-> maxMarks,
                               examType |-> "GS", timeLimit |-> timeLimit,
                               texts |-> extracted.texts, images |-> extracted.images]
    /\ UNCHANGED <<files, rejected>>
    /\ UNCHANGED serverVars

\* the fetch settles: the result is rendered, or the failure alerted; then finally
FetchSettles(outcome) ==
    /\ ui = "fetching"
    /\ ui' = "ready"
    /\ lastHandler' = "response"
    /\ offered' = <<>>
    /\ payload' = NoPayload
    /\ IF outcome.ok
       THEN /\ shown' = [hidden |-> FALSE, data |-> SampleResult]
            /\ alerts' = <<>>
       ELSE /\ alerts' = <<ErrorAlert("Error: " \o (IF outcome.message = ""
                                                    THEN "Server error"
                                                    ELSE outcome.message))>>
            /\ UNCHANGED shown
    /\ UNCHANGED <<files, rejected>>
    /\ UNCHANGED serverVars

ClientNext ==
    \/ \E b \in Batches : Len(files) + Len(Accepted(b)) <= MaxFiles /\ handleFiles(b)
    \/ \E i \in 1..ListCap : Remove(i)
    \/ ui = "ready" /\ \E q \in QuestionInputs, m \in MarksInputs, t \in TimeInputs :
                          Click(q, m, t)
    \/ ui = "fetching" /\ \E o \in FetchOutcomes : FetchSettles(o)

\* the endpoint idle, as one deployment
InitClient ==
    /\ ClientInit
    /\ variant = EvaluateJs
    /\ apiKey = TRUE
    /\ pc = "idle"
    /\ req = NoRequest
    /\ userContent = <<>>
    /\ modelCalls = 0
    /\ completion = NoCompletion
    /\ res = NoResponse

SpecClient == InitClient /\ [][ClientNext]_vars

(***************************************************************************)
(* The assembler with a list that grows past the ten files a click reads   *)
(***************************************************************************)
FolderSize == 12

\* the k-th file of a numbered folder: a photo, a typed page, a scanned page, and so on
Page(k) ==
    CASE k % 3 = 1 ->
            File(<<"page" \o DecimalString(k), "png">>, Type("image", "png"),
                 <<>>, <<>>, 0, FALSE)
      [] k % 3 = 2 ->
            File(<<"page" \o DecimalString(k), "docx">>, DocxType, <<>>, <<>>, 1200, FALSE)
      [] OTHER ->
            File(<<"page" \o DecimalString(k), "pdf">>, Type("application", "pdf"),
                 <<40>>, <<>>, 0, FALSE)

Folder == [k \in 1..FolderSize |-> Page(k)]

\* the user works through the folder in order: the next file alone, or the next four
NextPage ==
    LET listed == {k \in 1..FolderSize : \E i \in 1..Len(files) : files[i] = Folder[k]}
    IN  IF listed = {} THEN 1 ELSE 1 + CHOOSE k \in listed : \A j \in listed : j <= k

Selections ==
    {SubSeq(Folder, NextPage, NextPage + n - 1) :
        n \in {m \in {1, 4} : NextPage + m - 1 <= FolderSize}}

LongNext ==
    \/ \E b \in Selections : handleFiles(b)
    \/ \E i \in 1..ListCap : Remove(i)
    \/ ui = "ready" /\ \E q \in {<<>>, <<"Q">>} : Click(q, <<"1", "5">>, <<>>)
    \/ ui = "fetching" /\ \E o \in FetchOutcomes : ~o.ok /\ o.threw /\ FetchSettles(o)

SpecLong == InitClient /\ [][LongNext]_vars

(***************************************************************************)
(* Properties of the endpoint                                              *)
(***************************************************************************)
Done == pc = "done"
Answered200 == Done /\ res.status = 200
ReqFields == Fields(req.body)

\* the deployment can serve and the body parses to what the handler can destructure
Servable ==
    /\ req.method = "POST"
    /\ req.body.kind # "invalid"
    /\ variant = EvaluateMjs => (apiKey /\ req.body.kind # "null")

\* t is x rounded to the nearest integer, a tie going up, for x = n / d with d > 0
IsRoundOf(t, n, d) == 2 * t * d <= 2 * n + d /\ 2 * n + d < 2 * (t + 1) * d

RoundsScaled(b) ==
    IsRoundOf(b.totalScaled.n, b.rawOutOf100.n * b.maxMarks.n,
              b.rawOutOf100.d * 100 * b.maxMarks.d)

PositiveMarks(b) == IsNum(b.maxMarks) /\ b.maxMarks.n > 0

HasAnswerBlock == modelCalls = 1 /\ Len(ReqFields.texts) # 0
AnswerBlock == userContent[2].text

SourceLabelLen(t) ==
    Len("\n\n[Source: ")
    + (IF t.source.has /\ t.source.s # "" THEN Len(t.source.s) ELSE Len("unknown"))
    + Len("]\n")

RECURSIVE BlocksLength(_)
BlocksLength(texts) ==
    IF texts = <<>> THEN 0
    ELSE SourceLabelLen(Head(texts)) + StrLen(Head(texts).text) + BlocksLength(Tail(texts))

\* L: the length of the concatenation, one newline between consecutive blocks
ConcatLength(texts) == BlocksLength(texts) + Len(texts) - 1

\* C4 as stated: a concatenation longer than 150000 is sent as its first 150000
\* characters followed by "...[trimmed]", a shorter one unchanged.
C4_Original ==
    HasAnswerBlock =>
        IF ConcatLength(ReqFields.texts) > 150000
        THEN AnswerBlock = Slice(bigText(ReqFields.texts), 150000) \o Lit("...[trimmed]")
        ELSE AnswerBlock = bigText(ReqFields.texts)

\* C4 amended: a concatenation longer than 150000 is sent as its first 150000
\* characters followed by a newline and "...[trimmed]" (13 characters more), one of
\* at most 150000 characters unchanged.
C4_Truncation ==
    HasAnswerBlock =>
        IF ConcatLength(ReqFields.texts) > 150000
        THEN /\ Slice(AnswerBlock, 150000) = Slice(bigText(ReqFields.texts), 150000)
             /\ StrLen(Slice(AnswerBlock, 150000)) = 150000
             /\ StrLen(AnswerBlock) = 150000 + Len("\n...[trimmed]")
             /\ AnswerBlock[Len(AnswerBlock)] = Seg("\n...[trimmed]", 13)
        ELSE /\ AnswerBlock = bigText(ReqFields.texts)
             /\ StrLen(AnswerBlock) = ConcatLength(ReqFields.texts)

C4_Witness ==
    /\ pc = "awaitModel"
    /\ HasAnswerBlock
    /\ ConcatLength(ReqFields.texts) = 150001
    /\ StrLen(AnswerBlock) = 150013

QuestionMissing == ~Truthy(ReqFields.question)

Parsed == ParseContent(completion.content)
RawGiven == Get(Parsed, "rawOutOf100")

\* a number, or a string that spells one
IsNumeric(x) ==
    \/ x.t = "num"
    \/ x.t = "str" /\ Trim(x.chars) # <<>> /\ StringToNumber(x.chars).t = "num"

DefaultsTo(field, k, default) ==
    IF Get(Parsed, k) = Undefined THEN field = default ELSE field = Get(Parsed, k)

\* C6: whatever content the model call returns, the answer is 200 with
\* rawOutOf100 = 0 when no numeric raw score is present, and with every absent
\* feedback key at its default.
C6_Degradation ==
    (Done /\ completion.kind = "resolved") =>
        /\ res.status = 200
        /\ ~IsNumeric(RawGiven) => res.body.rawOutOf100 = Whole(0)
        /\ DefaultsTo(res.body.rubric, "rubric", EmptyObject)
        /\ DefaultsTo(res.body.strengths, "strengths", EmptyList)
        /\ DefaultsTo(res.body.weaknesses, "weaknesses", EmptyList)
        /\ DefaultsTo(res.body.suggestions, "suggestions", EmptyList)
        /\ DefaultsTo(res.body.inline_comments, "inline_comments", EmptyList)

\* the clamp the specification describes
ClampSpec(x) ==
    IF ~IsNumeric(x) THEN Whole(0)
    ELSE LET v == IF x.t = "num" THEN x ELSE StringToNumber(x.chars)
         IN  IF Less(v, Whole(0)) THEN Whole(0)
             ELSE IF Less(Whole(100), v) THEN Whole(100)
             ELSE v

\* C7: clamp(x, 0, 100) is 0 for a non-numeric x or x < 0, 100 for x > 100, x otherwise.
C7_Clamp == Answered200 => res.body.rawOutOf100 = ClampSpec(RawGiven)

\* C9: the model is called once for a 200, at most once for a 500, never for a
\* 400 or 405, and only after the method and required-field checks passed.
C9_CallCount ==
    /\ modelCalls <= 1
    /\ (Done /\ res.status = 200) => modelCalls = 1
    /\ (Done /\ res.status \in {400, 405}) => modelCalls = 0
    /\ modelCalls > 0 =>
          /\ req.method = "POST"
          /\ Truthy(ReqFields.question)
          /\ Truthy(ReqFields.maxMarks)
    /\ (pc = "received") => modelCalls = 0

C9_Witness ==
    /\ Done
    /\ completion.kind = "rejected"
    /\ res.status = 500
    /\ modelCalls = 1

MaxMarksInvalid(m) ==
    \/ m.t \in {"undefined", "null"}
    \/ ToNumber(m).t = "nan"
    \/ ToNumber(m).n <= 0

\* C10: a POST whose maxMarks is missing, zero, negative or not a number is
\* answered 400, and every 200 result has a positive maxMarks and an integer
\* totalScaled.
C10_MaxMarks ==
    (Done /\ Servable) =>
        /\ MaxMarksInvalid(ReqFields.maxMarks) => res.status = 400
        /\ res.status = 200 =>
              (PositiveMarks(res.body) /\ IsInteger(res.body.totalScaled))

(***************************************************************************)
(* Properties of the content assembler                                     *)
(***************************************************************************)
\* the last handler was an evaluate click that passed the form validation
ClickedValid ==
    /\ lastHandler = "click"
    /\ \A i \in 1..Len(alerts) :
          alerts[i].kind \notin {"Please paste the exact question.", "Enter valid Max Marks."}

Processed == FirstFiles(files, 10)

TextsOf(f) == {i \in 1..Len(payload.texts) : payload.texts[i].source = f.name}
ImagesOf(f) == {i \in 1..Len(payload.images) : payload.images[i].dataUrl.of = f.name}

\* a readable PDF with at least one page (an image MIME type would send it as an image)
IsPdf(f) ==
    /\ Ext(f.name) = "pdf"
    /\ f.type.major # "image"
    /\ Len(f.pages) >= 1
    /\ ~f.broken

\* the length of the text extractFromPDF hands back, trimmed as the handler compares it
ExtractedLength(f) == extractFromPDF(f).trimmedLength

\* C2: a PDF whose extracted text has length 500 goes out as text and no images,
\* one of length 499 as page images; every PDF with a page goes out as text or
\* as images, never both and never neither.
C2_PdfFallback ==
    (ClickedValid /\ payload.sent) =>
        \A i \in 1..Len(Processed) :
            LET f == Processed[i]
            IN  IsPdf(f) =>
                  /\ ExtractedLength(f) = 500 => (TextsOf(f) # {} /\ ImagesOf(f) = {})
                  /\ ExtractedLength(f) = 499 => (TextsOf(f) = {} /\ ImagesOf(f) # {})
                  /\ (TextsOf(f) # {}) # (ImagesOf(f) # {})

\* C3: a file whose extraction throws does not abort the batch: the other files
\* among the first 10 still contribute and the request is still sent.
C3_FailureIsLocal ==
    ClickedValid =>
        /\ payload.sent
        /\ \A i \in 1..Len(Processed) :
              LET c == Contribution(Processed[i])
              IN  ~c.threw =>
                    /\ \A j \in 1..Len(c.texts) :
                          \E k \in 1..Len(payload.texts) : payload.texts[k] = c.texts[j]
                    /\ \A j \in 1..Len(c.images) :
                          \E k \in 1..Len(payload.images) : payload.images[k] = c.images[j]

\* the kinds the assembler takes, by declared MIME type and file name together
IsPngOrJpeg(f) == f.type.major = "image" /\ f.type.minor \in {"png", "jpeg"}
IsKind(f, minor, ext) ==
    \/ f.type.major = "application" /\ f.type.minor = minor
    \/ Len(f.name) >= 2 /\ ToLowerCase(f.name[Len(f.name)]) = ext
Recognized(f) ==
    \/ IsPngOrJpeg(f)
    \/ IsKind(f, "pdf", "pdf")
    \/ IsKind(f, "vnd.openxmlformats-officedocument.wordprocessingml.document", "docx")
    \/ IsKind(f, "vnd.openxmlformats-officedocument.presentationml.presentation", "pptx")

Warned(f) == \E i \in 1..Len(alerts) : alerts[i] = [kind |-> "Unsupported", name |-> f.name]

\* C8: a file of no recognized kind handed to handleFiles is turned away with a
\* warning, never enters the list, and no payload assembled later holds a text
\* or an image from it.
C8_UnrecognizedRejected ==
    /\ \A i \in 1..Len(files) : Recognized(files[i])
    /\ lastHandler = "handleFiles" =>
          \A i \in 1..Len(offered) :
              ~Recognized(offered[i]) =>
                  (Warned(offered[i]) /\ offered[i].name \in rejected)
    /\ payload.sent =>
          \A f \in FileCatalog :
              (~Recognized(f) \/ f.name \in rejected) => (TextsOf(f) = {} /\ ImagesOf(f) = {})

C8_Witness ==
    /\ payload.sent
    /\ <<"anim", "gif">> \in rejected
    /\ Len(payload.images) > 0
    /\ Len(payload.texts) > 0

\* the files of the list at positions 11 and later
Excess == {i \in 1..Len(files) : i > 10}

\* what the files at positions lo..hi hand over, one after the other
RECURSIVE TextsFrom(_, _)
TextsFrom(lo, hi) ==
    IF lo > hi THEN <<>> ELSE Contribution(files[lo]).texts \o TextsFrom(lo + 1, hi)

RECURSIVE ImagesFrom(_, _)
ImagesFrom(lo, hi) ==
    IF lo > hi THEN <<>> ELSE Contribution(files[lo]).images \o ImagesFrom(lo + 1, hi)

\* C11: with more than 10 files in the list after additions and removals, the
\* payload of an evaluate click is what the first 10 files of the list hand over,
\* in list order; no file at position 11 or later has an entry in texts or in
\* images, and the click raises no alert about the files left out.
C11_FirstTenOnly ==
    (ClickedValid /\ Excess # {}) =>
        /\ payload.sent
        /\ payload.texts = TextsFrom(1, 10)
        /\ payload.images = ImagesFrom(1, 10)
        /\ \A i \in Excess : TextsOf(files[i]) = {} /\ ImagesOf(files[i]) = {}
        /\ alerts = <<>>

\* eleven files listed with page 12 last, so that one of the first eleven pages was
\* removed, and a click whose payload holds texts and images
C11_Witness ==
    /\ ClickedValid
    /\ payload.sent
    /\ Len(files) = 11
    /\ files[11] = Folder[12]
    /\ files[10] = Folder[11]
    /\ Len(payload.texts) > 0
    /\ Len(payload.images) > 0

====
